---- MODULE Spec2Model ----
(***************************************************************************)
(* A model of HttpClientLib (src/HttpClient.h): the WinHttpHandle RAII     *)
(* wrapper, HttpResponse, and HttpClient's entry points and sendRequest.   *)
(* Strings are sequences of one-character strings.  The WinHTTP calls and  *)
(* the Win32 string conversions are the environment: each call's outcome   *)
(* is a nondeterministic choice over what the call can report.             *)
(***************************************************************************)
EXTENDS Integers, Sequences, FiniteSets, TLC

(***************************************************************************)
(* Bounds of the model.                                                    *)
(***************************************************************************)
\* most lines of a raw header block handed to parseHeaders
MaxLines == 3
\* most transport calls (acquisitions and closes) made around the wrappers
MaxHandleCalls == 6
\* most non-empty chunks the transport returns for one response body
MaxReads == 2

(***************************************************************************)
(* Program constants.                                                      *)
(***************************************************************************)
\* INT_MAX: std::stoi throws std::out_of_range above it
IntMax == 2147483647
\* unsigned short is 16 bits wide: static_cast<unsigned short> keeps x % 2^16
UShortRange == 65536
HttpPort == 80
HttpsPort == 443

(***************************************************************************)
(* Strings.                                                                *)
(***************************************************************************)
Digits == {"0", "1", "2", "3", "4", "5", "6", "7", "8", "9"}

DigitVal(c) ==
  CASE c = "0" -> 0 [] c = "1" -> 1 [] c = "2" -> 2 [] c = "3" -> 3
    [] c = "4" -> 4 [] c = "5" -> 5 [] c = "6" -> 6 [] c = "7" -> 7
    [] c = "8" -> 8 [] c = "9" -> 9

\* the characters the ECMAScript "." does not match
LineTerminators == {"\n", "\r"}

\* s[a..b], empty when b < a
Sub(s, a, b) == IF b < a THEN <<>> ELSE SubSeq(s, a, b)

\* length of the longest prefix of s[from..] whose characters are all in / all
\* outside the set cs
RECURSIVE RunIn(_, _, _)
RunIn(s, from, cs) ==
  IF from > Len(s) \/ s[from] \notin cs THEN 0 ELSE 1 + RunIn(s, from + 1, cs)

RECURSIVE RunNotIn(_, _, _)
RunNotIn(s, from, cs) ==
  IF from > Len(s) \/ s[from] \in cs THEN 0 ELSE 1 + RunNotIn(s, from + 1, cs)

HasPrefix(s, p) == Len(s) >= Len(p) /\ SubSeq(s, 1, Len(p)) = p

(***************************************************************************)
(* std::regex_match(url, match, urlRegex), urlRegex being, in order:       *)
(*   group 1  "http" and an optional "s";   the literal "://";             *)
(*   group 2  one or more characters other than "/" and ":";               *)
(*   optionally ":" and group 3, one or more digits;                       *)
(*   optionally group 4, any number of characters other than "?";          *)
(*   optionally group 5, "?" and any number of non-line-terminators;       *)
(*   the end of the input.                                                 *)
(* Every quantifier is greedy, and with the longest choice at each one the *)
(* rest of the pattern matches whenever any choice does, so the first      *)
(* match the backtracking matcher finds is the one computed here.          *)
(* emptyIter: whether the matcher lets the optional group 4 take part in   *)
(* the match with an empty iteration (the standard library's matchers do;  *)
(* ECMAScript's RepeatMatcher rejects an empty iteration).                 *)
(***************************************************************************)
NoMatch ==
  [matched |-> FALSE, m1 |-> <<>>, m2 |-> <<>>, m3matched |-> FALSE, m3 |-> <<>>,
   m4matched |-> FALSE, m4 |-> <<>>, m5matched |-> FALSE, m5 |-> <<>>]

RegexMatch(url, emptyIter) ==
  LET http   == <<"h", "t", "t", "p">>
      https  == <<"h", "t", "t", "p", "s">>
      sep    == <<":", "/", "/">>
      scheme == IF HasPrefix(url, https \o sep) THEN https
                ELSE IF HasPrefix(url, http \o sep) THEN http
                ELSE <<>>
      h0     == Len(scheme) + Len(sep) + 1
      hostN  == RunNotIn(url, h0, {"/", ":"})
      p0     == h0 + hostN
      portN  == IF p0 <= Len(url) /\ url[p0] = ":"
                THEN RunIn(url, p0 + 1, Digits) ELSE 0
      q0     == IF portN > 0 THEN p0 + 1 + portN ELSE p0
      pathN  == RunNotIn(url, q0, {"?"})
      r0     == q0 + pathN
      query  == Sub(url, r0, Len(url))
  IN IF scheme = <<>> \/ hostN = 0 THEN NoMatch
     ELSE IF \E i \in 1..Len(query) : query[i] \in LineTerminators
     THEN NoMatch
     ELSE [matched   |-> TRUE,
           m1        |-> scheme,
           m2        |-> Sub(url, h0, p0 - 1),
           m3matched |-> portN > 0,
           m3        |-> Sub(url, p0 + 1, p0 + portN),
           m4matched |-> pathN > 0 \/ emptyIter,
           m4        |-> Sub(url, q0, r0 - 1),
           m5matched |-> query # <<>>,
           m5        |-> query]

\* std::stoi on a string of decimal digits: its value, or OutOfRange when the
\* value does not fit an int (std::stoi then throws std::out_of_range).  The
\* value is built digit by digit and never exceeds IntMax.
OutOfRange == -1

RECURSIVE DecimalValue(_)
DecimalValue(s) ==
  IF s = <<>> THEN 0
  ELSE LET hi == DecimalValue(SubSeq(s, 1, Len(s) - 1))
           d  == DigitVal(s[Len(s)])
       IN IF hi = OutOfRange \/ hi > (IntMax - d) \div 10
          THEN OutOfRange ELSE 10 * hi + d

StoiThrows(s) == DecimalValue(s) = OutOfRange

\* static_cast<unsigned short>(int)
ToUShort(n) == n % UShortRange

(***************************************************************************)
(* HttpClient::parseUrl.  ok: the return value; thrown: the what() of the  *)
(* exception std::stoi raises, "" when none.                               *)
(***************************************************************************)
StoiOutOfRange == "stoi argument out of range"

parseUrl(url, emptyIter) ==
  LET match == RegexMatch(url, emptyIter)
      https == <<"h", "t", "t", "p", "s">>
  IN IF ~match.matched
     THEN [ok |-> FALSE, thrown |-> "", scheme |-> <<>>, host |-> <<>>,
           port |-> 0, path |-> <<>>]
     ELSE IF match.m3matched /\ StoiThrows(match.m3)
     THEN [ok |-> FALSE, thrown |-> StoiOutOfRange, scheme |-> match.m1,
           host |-> match.m2, port |-> 0, path |-> <<>>]
     ELSE [ok     |-> TRUE,
           thrown |-> "",
           scheme |-> match.m1,
           host   |-> match.m2,
           port   |-> IF match.m3matched THEN ToUShort(DecimalValue(match.m3))
                      ELSE IF match.m1 = https THEN HttpsPort ELSE HttpPort,
           path   |-> IF match.m4matched THEN match.m4 ELSE <<"/">>]

(***************************************************************************)
(* std::unordered_map<std::string, std::string>: a function from keys to   *)
(* values.                                                                 *)
(***************************************************************************)
EmptyMap == [k \in {} |-> <<>>]

\* m[k] = v
MapPut(m, k, v) == [x \in (DOMAIN m) \cup {k} |-> IF x = k THEN v ELSE m[x]]

(***************************************************************************)
(* HttpResponse.                                                           *)
(***************************************************************************)
\* HttpResponse(): status_code 0, the strings and the map empty
NewResponse == [status_code |-> 0, body |-> <<>>, headers |-> EmptyMap, error |-> ""]

\* is_success with the upper end of the range included
is_success_Through300(r) == r.status_code >= 200 /\ r.status_code <= 300 /\ r.error = ""

is_success(r) == r.status_code >= 200 /\ r.status_code < 300 /\ r.error = ""

TrimSet == {" ", "\t", "\r", "\n"}

\* how many characters of TrimSet end s
RECURSIVE TrailingIn(_, _)
TrailingIn(s, cs) ==
  IF s = <<>> \/ s[Len(s)] \notin cs THEN 0
  ELSE 1 + TrailingIn(SubSeq(s, 1, Len(s) - 1), cs)

\* trim with the characters at the end kept
trim_LeadingOnly(str) ==
  LET first == RunIn(str, 1, TrimSet) + 1
  IN IF first > Len(str) THEN <<>> ELSE SubSeq(str, first, Len(str))

\* HttpResponse::trim: from the first to the last character outside " \t\r\n"
trim(str) ==
  LET first == RunIn(str, 1, TrimSet) + 1
      last  == Len(str) - TrailingIn(str, TrimSet)
  IN IF first > Len(str) THEN <<>> ELSE SubSeq(str, first, last)

\* the lines successive std::getline calls extract from a stream over s: each
\* call takes the characters up to the next "\n" (dropped) or the end, and
\* fails once nothing is left
RECURSIVE GetLines(_)
GetLines(s) ==
  IF s = <<>> THEN <<>>
  ELSE LET n == RunNotIn(s, 1, {"\n"})
       IN <<Sub(s, 1, n)>> \o GetLines(Sub(s, n + 2, Len(s)))

\* the loop of parseHeaders over the lines from the i-th on
RECURSIVE ParseLines(_, _, _)
ParseLines(lines, i, headers) ==
  IF i > Len(lines) THEN headers
  ELSE LET line == lines[i]
           delimiter_pos == RunNotIn(line, 1, {":"}) + 1
       IN IF line = <<>> \/ line = <<"\r">> THEN ParseLines(lines, i + 1, headers)
          ELSE IF delimiter_pos > Len(line) THEN ParseLines(lines, i + 1, headers)
          ELSE ParseLines(lines, i + 1,
                 MapPut(headers,
                        trim(Sub(line, 1, delimiter_pos - 1)),
                        trim(Sub(line, delimiter_pos + 1, Len(line)))))

\* parseHeaders with the first line parsed like the others
parseHeaders_FirstLineKept(raw_headers) == ParseLines(GetLines(raw_headers), 1, EmptyMap)

\* HttpResponse::parseHeaders: the headers it leaves (the first line is skipped)
parseHeaders(raw_headers) == ParseLines(GetLines(raw_headers), 2, EmptyMap)

(***************************************************************************)
(* The Win32 string conversions, on a small model of UTF-8: the ASCII      *)
(* characters are one byte and one UTF-16 unit each, "e'" is the two bytes *)
(* Lead Cont, and a byte that starts no valid sequence converts to the     *)
(* replacement character (the conversions are called with flags 0).        *)
(***************************************************************************)
Lead == "\\xC3"
Cont == "\\xA9"
EAcute == "e'"
Replacement == "U+FFFD"
Nul == "\\0"

RECURSIVE Utf8ToWide(_)
Utf8ToWide(s) ==
  IF s = <<>> THEN <<>>
  ELSE IF Len(s) >= 2 /\ s[1] = Lead /\ s[2] = Cont
       THEN <<EAcute>> \o Utf8ToWide(Sub(s, 3, Len(s)))
  ELSE IF s[1] \in {Lead, Cont}
       THEN <<Replacement>> \o Utf8ToWide(Sub(s, 2, Len(s)))
  ELSE <<s[1]>> \o Utf8ToWide(Sub(s, 2, Len(s)))

RECURSIVE WideToUtf8(_)
WideToUtf8(w) ==
  IF w = <<>> THEN <<>>
  ELSE IF w[1] = EAcute THEN <<Lead, Cont>> \o WideToUtf8(Sub(w, 2, Len(w)))
  ELSE IF w[1] = Replacement
       THEN <<"\\xEF", "\\xBF", "\\xBD">> \o WideToUtf8(Sub(w, 2, Len(w)))
  ELSE <<w[1]>> \o WideToUtf8(Sub(w, 2, Len(w)))

ConversionToWideFailed == "Failed to convert string to wide string."
ConversionToUtf8Failed == "Failed to convert wide string to UTF-8 string."

\* HttpClient::toWideString.  converts: whether MultiByteToWideChar reports a
\* size other than 0.  thrown: the what() of the exception raised, "" when none.
toWideString(utf8Str, converts) ==
  IF utf8Str = <<>> THEN [thrown |-> "", str |-> <<>>]
  ELSE IF ~converts THEN [thrown |-> ConversionToWideFailed, str |-> <<>>]
  ELSE LET wideStr == Utf8ToWide(utf8Str)
       IN [thrown |-> "",
           str    |-> IF wideStr # <<>> /\ wideStr[Len(wideStr)] = Nul
                      THEN SubSeq(wideStr, 1, Len(wideStr) - 1) ELSE wideStr]

\* HttpClient::toUTF8String
toUTF8String(wideStr, converts) ==
  IF wideStr = <<>> THEN [thrown |-> "", str |-> <<>>]
  ELSE IF ~converts THEN [thrown |-> ConversionToUtf8Failed, str |-> <<>>]
  ELSE [thrown |-> "", str |-> WideToUtf8(wideStr)]

(***************************************************************************)
(* The inputs the entry points are called with, and what the transport and *)
(* the JSON library can answer.                                            *)
(***************************************************************************)
GET == <<"G", "E", "T">>
POST == <<"P", "O", "S", "T">>
PUT == <<"P", "U", "T">>
PATCH == <<"P", "A", "T", "C", "H">>
DELETE == <<"D", "E", "L", "E", "T", "E">>
HEAD == <<"H", "E", "A", "D">>
OPTIONS == <<"O", "P", "T", "I", "O", "N", "S">>

ContentType == <<"C", "o", "n", "t", "e", "n", "t", "-", "T", "y", "p", "e">>
ApplicationJson ==
  <<"a", "p", "p", "l", "i", "c", "a", "t", "i", "o", "n", "/", "j", "s", "o", "n">>
TextPlain == <<"t", "e", "x", "t", "/", "p", "l", "a", "i", "n">>

\* HttpClient's default userAgent, "HttpClient/1.0"
DefaultUserAgent ==
  <<"H", "t", "t", "p", "C", "l", "i", "e", "n", "t", "/", "1", ".", "0">>

HttpPrefix == <<"h", "t", "t", "p", ":", "/", "/">>
HttpsPrefix == <<"h", "t", "t", "p", "s", ":", "/", "/">>
FtpPrefix == <<"f", "t", "p", ":", "/", "/">>

\* URLs of every shape the parser tells apart: no path; a path and a query; a
\* port, a path and a query; a query and no path; credentials; a port above
\* 65535; a non-numeric port; a port above INT_MAX; a query holding a line
\* terminator; no scheme; an unsupported scheme; no host
Urls ==
  { HttpPrefix \o <<"h">>,
    HttpPrefix \o <<"h", "/", "p", "?", "q">>,
    HttpsPrefix \o <<"h", ":", "8", "0", "/", "p", "?", "q", "=", "1">>,
    HttpPrefix \o <<"h", "?", "q">>,
    HttpPrefix \o <<"u", ":", "p", "@", "h", "/">>,
    HttpPrefix \o <<"h", ":", "6", "5", "5", "3", "6", "/">>,
    HttpPrefix \o <<"h", ":", "a", "b", "/", "p">>,
    HttpPrefix \o <<"h", ":", "2", "1", "4", "7", "4", "8", "3", "6", "4", "8">>,
    HttpPrefix \o <<"h", "/", "p", "?", "q", "\n">>,
    <<"n", "o", "t", "-", "a", "-", "u", "r", "l">>,
    <<"h", "/", "p">>,
    FtpPrefix \o <<"h", "/", "p">>,
    HttpPrefix \o <<"/", "p">> }

Bodies == {<<>>, <<"d">>}

HeaderMaps ==
  { EmptyMap,
    [k \in {<<"A">>} |-> <<"b">>],
    [k \in {ContentType} |-> TextPlain],
    [k \in {<<"A">>, <<"B">>} |-> IF k = <<"A">> THEN <<"b">> ELSE <<>>] }

\* JSON documents: a JSON string, given by the bytes of its value
JsonDocs == {<<"j">>, <<Lead, Cont>>, <<Cont>>}

\* nlohmann::json::dump() of such a document: the quoted text, or, for a value
\* that is not valid UTF-8, a type_error (316)
InvalidUtf8 == "[json.exception.type_error.316] invalid UTF-8 byte"

RECURSIVE ValidUtf8(_)
ValidUtf8(s) ==
  IF s = <<>> THEN TRUE
  ELSE IF s[1] = Lead THEN Len(s) >= 2 /\ s[2] = Cont /\ ValidUtf8(Sub(s, 3, Len(s)))
  ELSE s[1] # Cont /\ ValidUtf8(Sub(s, 2, Len(s)))

dump(jsonData) ==
  IF ValidUtf8(jsonData) THEN [thrown |-> "", str |-> <<"\"">> \o jsonData \o <<"\"">>]
  ELSE [thrown |-> InvalidUtf8, str |-> <<>>]

\* the status codes a response can carry
StatusCodes == {200, 301, 404}

\* the raw header blocks of a response, as UTF-16: status line, header lines,
\* blank line, each ended by CR LF
RawHeaderBlocks ==
  { <<"H", " ", "2", "\r", "\n", "A", ":", " ", "b", "\r", "\n", "\r", "\n">> }

\* the non-empty chunks a body read can return
Chunks == {<<"o">>, <<"k", "!">>}

\* sizeof(wchar_t) on the target platform
SizeofWchar == 2
\* the capacity of the body buffer
BufferSize == 4096

(***************************************************************************)
(* The state of one client and of the exchange it runs.                    *)
(***************************************************************************)
VARIABLES
  pc,            \* where the call stands: "idle", the stage sendRequest is about
                 \* to run, "returned", "escaped" (an exception left the entry
                 \* point) or "crashed" (the process was aborted)
  user_agent_,   \* HttpClient::user_agent_
  entry,         \* the entry point called
  method, url, data, headers,      \* sendRequest's parameters
  scheme, host, port, path,        \* sendRequest's locals, set by parseUrl
  hSession, hConnect, hRequest,    \* the handle each WinHttpHandle holds, 0: nullptr
  dwHeaderSize,  \* sendRequest's local
  responseBody,  \* sendRequest's local
  response,      \* sendRequest's local, the value returned
  calls,         \* the transport calls made so far, in order
  exit,          \* how the call ended and at which stage
  observed,      \* what the caller holds beside the response: the answer of
                 \* is_success(), the header mapping it gave postJson, the
                 \* lines of the raw block it gave parseHeaders
  wrappers,      \* WinHttpHandle objects used on their own: of each, whether it
                 \* is alive and its handle_
  threads        \* exchanges run by several threads on the one client: of each
                 \* thread, the parameters and locals of its sendRequest

args == <<entry, method, url, data, headers>>
parsed == <<scheme, host, port, path>>
handles == <<hSession, hConnect, hRequest>>
\* what an exchange leaves as it is: the client's member, and the wrappers and
\* threads that are modelled apart from it
apart == <<user_agent_, wrappers, threads>>
vars == <<pc, apart, args, parsed, handles, dwHeaderSize, responseBody,
          response, calls, exit, observed>>

\* one call of the transport: the operation, the handle it is given (0: none),
\* its other arguments and what it returns
Call(op, h, arg, ret) == [op |-> op, h |-> h, arg |-> arg, ret |-> ret]

Acquiring == {"WinHttpOpen", "WinHttpConnect", "WinHttpOpenRequest"}

\* a handle the transport has not returned before
FreshHandle == 1 + Cardinality({i \in 1..Len(calls) :
                                  calls[i].op \in Acquiring /\ calls[i].ret # 0})

(***************************************************************************)
(* WinHttpHandle::~WinHttpHandle: the calls it makes.                      *)
(***************************************************************************)
WinHttpHandle_dtor(handle_) ==
  IF handle_ # 0 THEN <<Call("WinHttpCloseHandle", handle_, <<>>, TRUE)>> ELSE <<>>

\* LeaveScope with the session wrapper released instead of destroyed
LeaveScope_SessionLeaked(hS, hC, hR) == WinHttpHandle_dtor(hR) \o WinHttpHandle_dtor(hC)

\* leaving the try block: the three wrappers are destroyed in the reverse of
\* the order of their declarations
LeaveScope(hS, hC, hR) ==
  WinHttpHandle_dtor(hR) \o WinHttpHandle_dtor(hC) \o WinHttpHandle_dtor(hS)

\* sendRequest ends: after the calls in log, the scope is left and resp is
\* returned.  kind: "return" (a return inside the try block), "catch" (the
\* handler of the try block) or "end" (the end of the try block).
Exit(log, resp, kind) ==
  /\ calls' = log \o LeaveScope(hSession, hConnect, hRequest)
  /\ hSession' = 0 /\ hConnect' = 0 /\ hRequest' = 0
  /\ response' = resp
  /\ exit' = [kind |-> kind, stage |-> pc]
  /\ pc' = "returned"
  /\ UNCHANGED <<observed, apart, args, parsed, dwHeaderSize, responseBody>>

\* Fail with the diagnostic left out
Fail_NoDiagnostic(log, error) == Exit(log, response, "return")

\* return response; with the error set
Fail(log, error) == Exit(log, [response EXCEPT !.error = error], "return")

\* catch (const std::exception& ex) { response.error = ex.what(); }
Catch(log, what) == Exit(log, [response EXCEPT !.error = what], "catch")

\* the stage is done: on to stage next
Goto(next) == pc' = next /\ exit' = exit

Init ==
  /\ pc = "idle"
  /\ user_agent_ = DefaultUserAgent
  /\ wrappers = <<>> /\ threads = <<>>
  /\ entry = "" /\ method = <<>> /\ url = <<>> /\ data = <<>> /\ headers = EmptyMap
  /\ scheme = <<>> /\ host = <<>> /\ port = 0 /\ path = <<>>
  /\ hSession = 0 /\ hConnect = 0 /\ hRequest = 0
  /\ dwHeaderSize = 0
  /\ responseBody = <<>>
  /\ response = NewResponse
  /\ calls = <<>>
  /\ exit = [kind |-> "", stage |-> ""]
  /\ observed = <<>>

(***************************************************************************)
(* The entry points.                                                       *)
(***************************************************************************)
\* sendRequest(m, u, d, h) is entered from entry point e, whose caller holds
\* held: HttpResponse response;
Enter(e, m, u, d, h, held) ==
  /\ pc = "idle"
  /\ entry' = e /\ method' = m /\ url' = u /\ data' = d /\ headers' = h
  /\ response' = NewResponse
  /\ observed' = held
  /\ pc' = "parseUrl"
  /\ UNCHANGED <<apart, parsed, handles, dwHeaderSize, responseBody, calls, exit>>

sendRequest(e, m, u, d, h) == Enter(e, m, u, d, h, observed)

get == \E u \in Urls, h \in HeaderMaps : sendRequest("get", GET, u, <<>>, h)

post == \E u \in Urls, d \in Bodies, h \in HeaderMaps : sendRequest("post", POST, u, d, h)

put == \E u \in Urls, d \in Bodies, h \in HeaderMaps : sendRequest("put", PUT, u, d, h)

patch ==
  \E u \in Urls, d \in Bodies, h \in HeaderMaps : sendRequest("patch", PATCH, u, d, h)

del == \E u \in Urls, h \in HeaderMaps : sendRequest("del", DELETE, u, <<>>, h)

head == \E u \in Urls, h \in HeaderMaps : sendRequest("head", HEAD, u, <<>>, h)

options == \E u \in Urls, h \in HeaderMaps : sendRequest("options", OPTIONS, u, <<>>, h)

\* WithContentType with a Content-Type of the caller's left as it is
WithContentType_CallerWins(h) ==
  IF ContentType \in DOMAIN h THEN h ELSE MapPut(h, ContentType, ApplicationJson)

\* auto headersWithContentType = headers;
\* headersWithContentType["Content-Type"] = "application/json";
WithContentType(h) == MapPut(h, ContentType, ApplicationJson)

\* postJson: dump() runs before sendRequest is entered, outside its try block;
\* the caller keeps the header mapping it gave
postJson ==
  \E u \in Urls, jsonData \in JsonDocs, h \in HeaderMaps :
    LET d == dump(jsonData)
        headersWithContentType == WithContentType(h)
    IN IF d.thrown # ""
       THEN /\ pc = "idle"
            /\ pc' = "escaped"
            /\ entry' = "postJson" /\ url' = u
            /\ exit' = [kind |-> "throw", stage |-> d.thrown]
            /\ UNCHANGED <<observed, apart, method, data, headers, parsed, handles,
                           dwHeaderSize, responseBody, response, calls>>
       ELSE Enter("postJson", POST, u, d.str, headersWithContentType, <<h>>)

(***************************************************************************)
(* The stages of sendRequest.                                              *)
(***************************************************************************)
InvalidUrl == "Invalid URL format."

\* stage 1: parseUrl
ParseUrl ==
  /\ pc = "parseUrl"
  /\ \E emptyIter \in BOOLEAN :
       LET r == parseUrl(url, emptyIter)
       IN IF r.thrown # "" THEN Catch(calls, r.thrown)
          ELSE IF ~r.ok THEN Fail(calls, InvalidUrl)
          ELSE /\ scheme' = r.scheme /\ host' = r.host /\ port' = r.port
               /\ path' = r.path
               /\ Goto("WinHttpOpen")
               /\ UNCHANGED <<observed, apart, args, handles, dwHeaderSize,
                              responseBody, response, calls>>

\* stage 2: WinHttpHandle hSession(WinHttpOpen(toWideString(user_agent_), ...))
OpenSession ==
  /\ pc = "WinHttpOpen"
  /\ \E converts \in BOOLEAN, h \in {0, FreshHandle} :
       LET agent == toWideString(user_agent_, converts)
           log   == Append(calls, Call("WinHttpOpen", 0, agent.str, h))
       IN IF agent.thrown # "" THEN Catch(calls, agent.thrown)
          ELSE IF h = 0 THEN Fail(log, "WinHttpOpen failed.")
          ELSE /\ hSession' = h
               /\ calls' = log
               /\ Goto("WinHttpConnect")
               /\ UNCHANGED <<observed, apart, args, parsed, hConnect, hRequest,
                              dwHeaderSize, responseBody, response>>

\* stage 3: WinHttpHandle hConnect(WinHttpConnect(hSession, toWideString(host), port, 0))
Connect ==
  /\ pc = "WinHttpConnect"
  /\ \E converts \in BOOLEAN, h \in {0, FreshHandle} :
       LET server == toWideString(host, converts)
           log    == Append(calls,
                       Call("WinHttpConnect", hSession,
                            [server |-> server.str, port |-> port], h))
       IN IF server.thrown # "" THEN Catch(calls, server.thrown)
          ELSE IF h = 0 THEN Fail(log, "WinHttpConnect failed.")
          ELSE /\ hConnect' = h
               /\ calls' = log
               /\ Goto("WinHttpOpenRequest")
               /\ UNCHANGED <<observed, apart, args, parsed, hSession, hRequest,
                              dwHeaderSize, responseBody, response>>

\* stage 4: WinHttpHandle hRequest(WinHttpOpenRequest(hConnect, toWideString(method),
\* toWideString(path), ..., isHttps ? WINHTTP_FLAG_SECURE : 0))
OpenRequest ==
  /\ pc = "WinHttpOpenRequest"
  /\ \E convertsVerb \in BOOLEAN, convertsName \in BOOLEAN, h \in {0, FreshHandle} :
       LET verb    == toWideString(method, convertsVerb)
           name    == toWideString(path, convertsName)
           isHttps == scheme = <<"h", "t", "t", "p", "s">>
           log     == Append(calls,
                        Call("WinHttpOpenRequest", hConnect,
                             [verb |-> verb.str, objectName |-> name.str,
                              secure |-> isHttps], h))
       IN IF verb.thrown # "" THEN Catch(calls, verb.thrown)
          ELSE IF name.thrown # "" THEN Catch(calls, name.thrown)
          ELSE IF h = 0 THEN Fail(log, "WinHttpOpenRequest failed.")
          ELSE /\ hRequest' = h
               /\ calls' = log
               /\ Goto("WinHttpAddRequestHeaders")
               /\ UNCHANGED <<observed, apart, args, parsed, hSession, hConnect,
                              dwHeaderSize, responseBody, response>>

\* the orders in which a map can be iterated: its keys, each once
Orders(m) ==
  {o \in [1..Cardinality(DOMAIN m) -> DOMAIN m] :
     \A i, j \in DOMAIN o : i # j => o[i] # o[j]}

\* HeaderString with the CR LF after each entry left out
RECURSIVE HeaderString_NoCrLf(_, _, _)
HeaderString_NoCrLf(m, order, i) ==
  IF i > Len(order) THEN <<>>
  ELSE toWideString(order[i], TRUE).str \o <<":", " ">>
         \o toWideString(m[order[i]], TRUE).str
         \o HeaderString_NoCrLf(m, order, i + 1)

\* the loop building headerString, over the keys in the order given, from the
\* i-th on, every conversion succeeding
RECURSIVE HeaderString(_, _, _)
HeaderString(m, order, i) ==
  IF i > Len(order) THEN <<>>
  ELSE toWideString(order[i], TRUE).str \o <<":", " ">>
         \o toWideString(m[order[i]], TRUE).str \o <<"\r", "\n">>
         \o HeaderString(m, order, i + 1)

\* stage 5: the headers
AddRequestHeaders ==
  /\ pc = "WinHttpAddRequestHeaders"
  /\ \E order \in Orders(headers), converts \in BOOLEAN, ok \in BOOLEAN :
       LET headerString == HeaderString(headers, order, 1)
           throws == /\ ~converts
                     /\ \E k \in DOMAIN headers : k # <<>> \/ headers[k] # <<>>
           log == Append(calls,
                    Call("WinHttpAddRequestHeaders", hRequest,
                         [headers |-> headerString, length |-> Len(headerString)], ok))
       IN IF throws THEN Catch(calls, ConversionToWideFailed)
          ELSE IF headerString = <<>>
          THEN /\ Goto("WinHttpSendRequest")
               /\ UNCHANGED <<observed, apart, args, parsed, handles, dwHeaderSize,
                              responseBody, response, calls>>
          ELSE IF ~ok THEN Fail(log, "WinHttpAddRequestHeaders failed.")
          ELSE /\ calls' = log
               /\ Goto("WinHttpSendRequest")
               /\ UNCHANGED <<observed, apart, args, parsed, handles, dwHeaderSize,
                              responseBody, response>>

\* lpOptional with the buffer of the string passed whatever its length
lpOptional_AlwaysBuffer(d) == "data"

\* (LPVOID)(data.empty() ? NULL : data.c_str())
lpOptional(d) == IF d = <<>> THEN "NULL" ELSE "data"

\* stage 6: WinHttpSendRequest(hRequest, ..., data.empty() ? NULL : data.c_str(),
\* data.empty() ? 0 : data.length(), data.empty() ? 0 : data.length(), 0)
SendRequest ==
  /\ pc = "WinHttpSendRequest"
  /\ \E ok \in BOOLEAN :
       LET log == Append(calls,
                    Call("WinHttpSendRequest", hRequest,
                         [lpOptional       |-> lpOptional(data),
                          optional         |-> data,
                          dwOptionalLength |-> IF data = <<>> THEN 0 ELSE Len(data),
                          dwTotalLength    |-> IF data = <<>> THEN 0 ELSE Len(data)],
                         ok))
       IN IF ~ok THEN Fail(log, "WinHttpSendRequest failed.")
          ELSE /\ calls' = log
               /\ Goto("WinHttpReceiveResponse")
               /\ UNCHANGED <<observed, apart, args, parsed, handles, dwHeaderSize,
                              responseBody, response>>

\* stage 7: WinHttpReceiveResponse(hRequest, NULL)
ReceiveResponse ==
  /\ pc = "WinHttpReceiveResponse"
  /\ \E ok \in BOOLEAN :
       LET log == Append(calls, Call("WinHttpReceiveResponse", hRequest, <<>>, ok))
       IN IF ~ok THEN Fail(log, "WinHttpReceiveResponse failed.")
          ELSE /\ calls' = log
               /\ Goto("QueryStatusCode")
               /\ UNCHANGED <<observed, apart, args, parsed, handles, dwHeaderSize,
                              responseBody, response>>

\* StatusStored with a status of 400 and above reported as an error
StatusStored_ErrorAbove400(resp, dwStatusCode) ==
  [resp EXCEPT !.status_code = dwStatusCode,
               !.error = IF dwStatusCode >= 400 THEN "HTTP error." ELSE @]

\* response.status_code = static_cast<int>(dwStatusCode);
StatusStored(resp, dwStatusCode) == [resp EXCEPT !.status_code = dwStatusCode]

\* stage 8: WinHttpQueryHeaders(hRequest, WINHTTP_QUERY_STATUS_CODE | ..., &dwStatusCode, ...)
QueryStatusCode ==
  /\ pc = "QueryStatusCode"
  /\ \E ok \in BOOLEAN, dwStatusCode \in StatusCodes :
       LET log == Append(calls,
                    Call("WinHttpQueryHeaders", hRequest,
                         [query |-> "STATUS_CODE", pass |-> "fill",
                          status |-> IF ok THEN dwStatusCode ELSE 0],
                         ok))
       IN IF ~ok THEN Fail(log, "WinHttpQueryHeaders for status code failed.")
          ELSE /\ response' = StatusStored(response, dwStatusCode)
               /\ calls' = log
               /\ Goto("QueryHeaderSize")
               /\ UNCHANGED <<observed, apart, args, parsed, handles, dwHeaderSize,
                              responseBody>>

\* stage 9, first pass: WinHttpQueryHeaders(hRequest, WINHTTP_QUERY_RAW_HEADERS_CRLF,
\* ..., NULL, &dwHeaderSize, ...), its result ignored.  The call reports the
\* size of the block in bytes, its terminator included, or, failing otherwise,
\* leaves dwHeaderSize at 0.
QueryHeaderSize ==
  /\ pc = "QueryHeaderSize"
  /\ \E size \in {0} \cup {SizeofWchar * (Len(b) + 1) : b \in RawHeaderBlocks} :
       /\ dwHeaderSize' = size
       /\ calls' = Append(calls,
                     Call("WinHttpQueryHeaders", hRequest,
                          [query |-> "RAW_HEADERS_CRLF", pass |-> "size", buffer |-> 0,
                           size |-> size],
                          FALSE))
       /\ Goto("QueryHeaders")
       /\ UNCHANGED <<observed, apart, args, parsed, handles, responseBody, response>>

\* stage 9, second pass: std::vector<wchar_t> headerBuffer(dwHeaderSize / sizeof(wchar_t));
\* WinHttpQueryHeaders(..., &headerBuffer[0], &dwHeaderSize, ...); on success
\* toUTF8String and parseHeaders.  &headerBuffer[0] on an empty vector is
\* undefined: a checked build aborts the process, an unchecked one hands the
\* transport a null buffer of size 0, and the query fails.
QueryHeaders ==
  /\ pc = "QueryHeaders"
  /\ LET length == dwHeaderSize \div SizeofWchar
         failed == Append(calls,
                     Call("WinHttpQueryHeaders", hRequest,
                          [query |-> "RAW_HEADERS_CRLF", pass |-> "fill",
                           buffer |-> length, size |-> dwHeaderSize, block |-> <<>>],
                          FALSE))
         skip   == /\ calls' = failed
                   /\ Goto("WinHttpReadData")
                   /\ UNCHANGED <<observed, apart, args, parsed, handles, dwHeaderSize,
                                  responseBody, response>>
     IN IF length = 0
        THEN \E aborts \in BOOLEAN :
               IF aborts
               THEN /\ pc' = "crashed"
                    /\ exit' = [kind |-> "abort", stage |-> pc]
                    /\ UNCHANGED <<observed, apart, args, parsed, handles, dwHeaderSize,
                                   responseBody, response, calls>>
               ELSE skip
        ELSE \E ok \in BOOLEAN, converts \in BOOLEAN,
                headerBuffer \in {b \o <<Nul>> : b \in {x \in RawHeaderBlocks :
                                                          Len(x) + 1 = length}} :
               LET log      == Append(calls,
                                 Call("WinHttpQueryHeaders", hRequest,
                                      [query |-> "RAW_HEADERS_CRLF", pass |-> "fill",
                                       buffer |-> length, size |-> dwHeaderSize,
                                       block |-> headerBuffer],
                                      TRUE))
                   headersW == SubSeq(headerBuffer, 1, Len(headerBuffer) - 1)
                   headersA == toUTF8String(headersW, converts)
               IN IF ~ok THEN skip
                  ELSE IF headersA.thrown # "" THEN Catch(log, headersA.thrown)
                  ELSE /\ response' = [response EXCEPT
                                         !.headers = parseHeaders(headersA.str)]
                       /\ calls' = log
                       /\ Goto("WinHttpReadData")
                       /\ UNCHANGED <<observed, apart, args, parsed, handles,
                                      dwHeaderSize, responseBody>>

\* the non-empty chunks read so far
ChunksRead ==
  Cardinality({i \in 1..Len(calls) :
                 calls[i].op = "WinHttpReadData" /\ calls[i].ret /\ calls[i].arg.read > 0})

\* ReadFailed with the chunks read so far handed back in the response
ReadFailed_PartialBody(log) ==
  Exit(log, [response EXCEPT !.error = "WinHttpReadData failed.", !.body = responseBody],
       "return")

\* a failed read: response.error = "WinHttpReadData failed."; return response;
\* (responseBody, a local, is dropped)
ReadFailed(log) == Fail(log, "WinHttpReadData failed.")

\* append with the chunk taking the place of what was read before
append_Assigned(body, chunk) == chunk

\* responseBody.append(buffer.data(), dwBytesRead)
append(body, chunk) == body \o chunk

\* stage 10: one turn of the loop: WinHttpReadData(hRequest, buffer.data(),
\* buffer.size(), &dwBytesRead); responseBody.append(buffer.data(), dwBytesRead);
\* and, after the last turn, response.body = responseBody
ReadData ==
  /\ pc = "WinHttpReadData"
  /\ \E ok \in BOOLEAN,
        chunk \in {<<>>} \cup (IF ChunksRead < MaxReads THEN Chunks ELSE {}) :
       LET dwBytesRead == Len(chunk)
           log == Append(calls,
                    Call("WinHttpReadData", hRequest,
                         [size |-> BufferSize, read |-> IF ok THEN dwBytesRead ELSE 0,
                          buffer |-> IF ok THEN chunk ELSE <<>>],
                         ok))
       IN IF ~ok THEN ReadFailed(log)
          ELSE IF dwBytesRead > 0
          THEN /\ responseBody' = append(responseBody, chunk)
               /\ calls' = log
               /\ Goto("WinHttpReadData")
               /\ UNCHANGED <<observed, apart, args, parsed, handles, dwHeaderSize,
                              response>>
          ELSE Exit(log, [response EXCEPT !.body = append(responseBody, chunk)], "end")

Next ==
  \/ get \/ post \/ put \/ patch \/ del \/ head \/ options \/ postJson
  \/ ParseUrl \/ OpenSession \/ Connect \/ OpenRequest \/ AddRequestHeaders
  \/ SendRequest \/ ReceiveResponse \/ QueryStatusCode \/ QueryHeaderSize
  \/ QueryHeaders \/ ReadData

Spec == Init /\ [][Next]_vars

(***************************************************************************)
(* HttpResponse values built by hand, and is_success() called on them.     *)
(***************************************************************************)
SyntheticResponses ==
  [status_code : {-1, 0, 100, 199, 200, 201, 250, 298, 299, 300, 301, 404, 500},
   body        : {<<>>, <<"o">>},
   headers     : {EmptyMap, [k \in {<<"A">>} |-> <<"b">>]},
   error       : {"", "WinHttpReadData failed."}]

InitResponse ==
  /\ pc = "built"
  /\ response \in SyntheticResponses
  /\ user_agent_ = DefaultUserAgent
  /\ wrappers = <<>> /\ threads = <<>>
  /\ entry = "" /\ method = <<>> /\ url = <<>> /\ data = <<>> /\ headers = EmptyMap
  /\ scheme = <<>> /\ host = <<>> /\ port = 0 /\ path = <<>>
  /\ hSession = 0 /\ hConnect = 0 /\ hRequest = 0
  /\ dwHeaderSize = 0
  /\ responseBody = <<>>
  /\ calls = <<>>
  /\ exit = [kind |-> "", stage |-> ""]
  /\ observed = <<>>

IsSuccess ==
  /\ pc = "built"
  /\ observed' = <<is_success(response)>>
  /\ pc' = "observed"
  /\ UNCHANGED <<apart, args, parsed, handles, dwHeaderSize, responseBody,
                 response, calls, exit>>

SpecResponse == InitResponse /\ [][IsSuccess]_vars

(***************************************************************************)
(* The header codec on its own: a header mapping serialized as sendRequest *)
(* serializes it and parsed back by parseHeaders, and raw header blocks    *)
(* parsed by parseHeaders.                                                 *)
(***************************************************************************)
\* header names: plain, holding a colon, starting with a space
CodecKeys == { <<"A">>, <<"B">>, <<"A", ":">>, <<" ", "A">> }

\* header values: empty, holding a colon, ending with a space, holding a line
\* feed, ending with a NUL, a two-byte UTF-8 character
CodecValues ==
  { <<>>, <<"c", ":", "d">>, <<"b", " ">>, <<"b", "\n", "c">>, <<"b", Nul>>,
    <<Lead, Cont>> }

CodecMaps == UNION {[ks -> CodecValues] : ks \in SUBSET CodecKeys}

StatusLine == <<"H", " ", "2">>
CrLf == <<"\r", "\n">>

\* the lines of a raw block, without their CR LF: a status line, a line with
\* a colon fit to come first, two lines with the same key, a line with spaces
\* around key and value, a line without a colon, a blank line, a lone colon
BlockLines ==
  { StatusLine,
    <<"S", ":", " ", "1">>,
    <<"A", ":", " ", "b">>,
    <<"A", ":", "c">>,
    <<" ", "B", " ", ":", " ", " ", "d", " ">>,
    <<"x">>,
    <<>>,
    <<":">> }

LineSeqs == UNION {[1..n -> BlockLines] : n \in 0..MaxLines}

\* the block made of the lines from the i-th on, each ended by CR LF
RECURSIVE Block(_, _)
Block(lines, i) ==
  IF i > Len(lines) THEN <<>> ELSE lines[i] \o CrLf \o Block(lines, i + 1)

\* either a header mapping to serialize, or the lines of a raw block to parse
InitCodec ==
  /\ \/ /\ pc = "mapped" /\ entry = "serialize"
        /\ headers \in CodecMaps /\ observed = <<>> /\ data = <<>>
     \/ /\ pc = "serialized" /\ entry = "parseHeaders"
        /\ headers = EmptyMap /\ observed \in LineSeqs /\ data = Block(observed, 1)
  /\ user_agent_ = DefaultUserAgent
  /\ wrappers = <<>> /\ threads = <<>>
  /\ method = <<>> /\ url = <<>>
  /\ scheme = <<>> /\ host = <<>> /\ port = 0 /\ path = <<>>
  /\ hSession = 0 /\ hConnect = 0 /\ hRequest = 0
  /\ dwHeaderSize = 0
  /\ responseBody = <<>>
  /\ response = NewResponse
  /\ calls = <<>>
  /\ exit = [kind |-> "", stage |-> ""]

\* the mapping is serialized by the loop of sendRequest, in one of the orders
\* the map can be iterated in, and set between a status line and a blank line;
\* the block is converted as sendRequest converts the block it receives
Serialize ==
  /\ pc = "mapped"
  /\ \E order \in Orders(headers) :
       data' = toUTF8String(StatusLine \o CrLf \o HeaderString(headers, order, 1) \o CrLf,
                            TRUE).str
  /\ pc' = "serialized"
  /\ UNCHANGED <<observed, apart, entry, method, url, headers, parsed, handles,
                 dwHeaderSize, responseBody, response, calls, exit>>

\* response.parseHeaders(data)
Parse ==
  /\ pc = "serialized"
  /\ response' = [response EXCEPT !.headers = parseHeaders(data)]
  /\ pc' = "parsed"
  /\ UNCHANGED <<observed, apart, args, parsed, handles, dwHeaderSize,
                 responseBody, calls, exit>>

NextCodec == Serialize \/ Parse

SpecCodec == InitCodec /\ [][NextCodec]_vars

(***************************************************************************)
(* WinHttpHandle on its own: wrappers constructed, moved, reset and        *)
(* destroyed by a caller.  The handles the caller gives a wrapper are the  *)
(* null handle, a handle it has just acquired from the transport, and, to  *)
(* reset, the handle the wrapper holds (hRequest.reset(hRequest.get())).   *)
(* calls holds the acquisitions and the closes; observed tells whether a   *)
(* wrapper was reset to the handle it held.                                *)
(***************************************************************************)
Wrappers == {"a", "b"}

Unborn == [life |-> "unborn", handle_ |-> 0]

InitHandle ==
  /\ wrappers = [w \in Wrappers |-> Unborn]
  /\ pc = "wrappers"
  /\ user_agent_ = DefaultUserAgent /\ threads = <<>>
  /\ entry = "" /\ method = <<>> /\ url = <<>> /\ data = <<>> /\ headers = EmptyMap
  /\ scheme = <<>> /\ host = <<>> /\ port = 0 /\ path = <<>>
  /\ hSession = 0 /\ hConnect = 0 /\ hRequest = 0
  /\ dwHeaderSize = 0
  /\ responseBody = <<>>
  /\ response = NewResponse
  /\ calls = <<>>
  /\ exit = [kind |-> "", stage |-> ""]
  /\ observed = <<FALSE>>

\* the caller acquires a handle from the transport, or has the null handle
Given(h) ==
  IF h = 0 THEN calls ELSE Append(calls, Call("WinHttpOpen", 0, <<>>, h))

GivenHandles == {0} \cup (IF Len(calls) < MaxHandleCalls THEN {FreshHandle} ELSE {})

HandleFrame ==
  UNCHANGED <<pc, user_agent_, threads, args, parsed, handles, dwHeaderSize,
              responseBody, response, exit>>

\* WinHttpHandle(HINTERNET handle = nullptr) : handle_(handle) {}
WinHttpHandle(w) ==
  /\ wrappers[w].life = "unborn"
  /\ \E handle \in GivenHandles :
       /\ wrappers' = [wrappers EXCEPT ![w] = [life |-> "alive", handle_ |-> handle]]
       /\ calls' = Given(handle)
  /\ UNCHANGED observed
  /\ HandleFrame

\* WinHttpHandle(WinHttpHandle&& other) : handle_(other.handle_) { other.handle_ = nullptr; }
MoveConstruct(w, other) ==
  /\ w # other
  /\ wrappers[w].life = "unborn" /\ wrappers[other].life = "alive"
  /\ wrappers' = [wrappers EXCEPT
                    ![w] = [life |-> "alive", handle_ |-> wrappers[other].handle_],
                    ![other].handle_ = 0]
  /\ UNCHANGED <<calls, observed>>
  /\ HandleFrame

\* WinHttpHandle& operator=(WinHttpHandle&& other)
MoveAssign(w, other) ==
  /\ wrappers[w].life = "alive" /\ wrappers[other].life = "alive"
  /\ IF w # other
     THEN /\ calls' = calls \o WinHttpHandle_dtor(wrappers[w].handle_)
          /\ wrappers' = [wrappers EXCEPT ![w].handle_ = wrappers[other].handle_,
                                          ![other].handle_ = 0]
     ELSE UNCHANGED <<calls, wrappers>>
  /\ UNCHANGED observed
  /\ HandleFrame

\* void reset(HINTERNET handle = nullptr): the handle held is closed, if there
\* is one, and the handle given is held
reset(w) ==
  /\ wrappers[w].life = "alive"
  /\ Len(calls) < MaxHandleCalls
  /\ \E handle \in GivenHandles \cup {wrappers[w].handle_} :
       LET own == handle # 0 /\ handle = wrappers[w].handle_
       IN /\ calls' = (IF own THEN calls ELSE Given(handle))
                        \o WinHttpHandle_dtor(wrappers[w].handle_)
          /\ wrappers' = [wrappers EXCEPT ![w].handle_ = handle]
          /\ observed' = <<observed[1] \/ own>>
  /\ HandleFrame

\* ~WinHttpHandle()
Destroy(w) ==
  /\ wrappers[w].life = "alive"
  /\ Len(calls) < MaxHandleCalls
  /\ calls' = calls \o WinHttpHandle_dtor(wrappers[w].handle_)
  /\ wrappers' = [wrappers EXCEPT ![w] = [life |-> "destroyed", handle_ |-> 0]]
  /\ UNCHANGED observed
  /\ HandleFrame

NextHandle ==
  \E w \in Wrappers :
    \/ WinHttpHandle(w)
    \/ \E other \in Wrappers : MoveConstruct(w, other) \/ MoveAssign(w, other)
    \/ reset(w)
    \/ Destroy(w)

SpecHandle == InitHandle /\ [][NextHandle]_vars

(***************************************************************************)
(* Several threads calling entry points of the one client.  sendRequest is *)
(* a const member function whose state is its parameters and automatic     *)
(* variables, so each thread has its own (threads[t]); the client's        *)
(* user_agent_ and the transport are what the threads share.  Each         *)
(* thread's calls are the transport calls it made.  The transport gives    *)
(* out the first handle that is not open, so a handle one thread closed is *)
(* given out again, to that thread or to another.                          *)
(***************************************************************************)
Threads == {"t1", "t2"}

ThreadRequests ==
  { [entry |-> "get", method |-> GET, url |-> HttpPrefix \o <<"h">>,
     data |-> <<>>, headers |-> EmptyMap],
    [entry |-> "post", method |-> POST,
     url |-> HttpsPrefix \o <<"g", ":", "8", "0", "/", "p">>,
     data |-> <<"d">>, headers |-> [k \in {<<"A">>} |-> <<"b">>]],
    [entry |-> "get", method |-> GET, url |-> <<"n", "o", "t", "-", "a", "-", "u", "r", "l">>,
     data |-> <<>>, headers |-> EmptyMap] }

\* what the transport answers the threads: the status, and the one chunk of
\* a body that is not empty
ThreadStatusCodes == {404}
ThreadChunks == {<<"o">>}

IdleThread ==
  [pc |-> "idle", entry |-> "", method |-> <<>>, url |-> <<>>, data |-> <<>>,
   headers |-> EmptyMap, scheme |-> <<>>, host |-> <<>>, port |-> 0, path |-> <<>>,
   hSession |-> 0, hConnect |-> 0, hRequest |-> 0, dwHeaderSize |-> 0,
   responseBody |-> <<>>, response |-> NewResponse, calls |-> <<>>,
   exit |-> [kind |-> "", stage |-> ""]]

InitThreads ==
  /\ threads = [t \in Threads |-> IdleThread]
  /\ pc = "threads"
  /\ user_agent_ = DefaultUserAgent /\ wrappers = <<>>
  /\ entry = "" /\ method = <<>> /\ url = <<>> /\ data = <<>> /\ headers = EmptyMap
  /\ scheme = <<>> /\ host = <<>> /\ port = 0 /\ path = <<>>
  /\ hSession = 0 /\ hConnect = 0 /\ hRequest = 0
  /\ dwHeaderSize = 0
  /\ responseBody = <<>>
  /\ response = NewResponse
  /\ calls = <<>>
  /\ exit = [kind |-> "", stage |-> ""]
  /\ observed = <<>>

\* the transport calls made by the threads: the thread and the place in its calls
Made == UNION {{<<t, i>> : i \in 1..Len(threads[t].calls)} : t \in Threads}
CallAt(p) == threads[p[1]].calls[p[2]]

\* the handles the transport has: as many as the threads can hold at a time
HandlePool == 1..(Cardinality(Threads) * Cardinality(Acquiring))

\* the handles the transport has given out and not been asked to close
OpenHandles ==
  {h \in HandlePool :
     Cardinality({p \in Made : CallAt(p).op \in Acquiring /\ CallAt(p).ret = h})
       > Cardinality({p \in Made : CallAt(p).op = "WinHttpCloseHandle" /\ CallAt(p).h = h})}

\* what an acquisition can return: failure, or the first handle that is not
\* open
Acquired ==
  {0} \cup {h \in HandlePool \ OpenHandles : \A g \in HandlePool \ OpenHandles : h <= g}

\* thread t takes a step that leaves its sendRequest in state next
Run(t, next) ==
  /\ threads' = [threads EXCEPT ![t] = next]
  /\ UNCHANGED <<pc, user_agent_, wrappers, args, parsed, handles, dwHeaderSize,
                 responseBody, response, calls, exit, observed>>

\* the exchange of the thread ends, as in Exit, Fail and Catch
ThreadLeft(me, log, resp, kind) ==
  [me EXCEPT !.calls = log \o LeaveScope(me.hSession, me.hConnect, me.hRequest),
             !.hSession = 0, !.hConnect = 0, !.hRequest = 0,
             !.response = resp,
             !.exit = [kind |-> kind, stage |-> me.pc],
             !.pc = "returned"]

ThreadFailed(me, log, error) ==
  ThreadLeft(me, log, [me.response EXCEPT !.error = error], "return")

ThreadCaught(me, log, what) ==
  ThreadLeft(me, log, [me.response EXCEPT !.error = what], "catch")

\* an entry point is called on the thread
ThreadEnter(t) ==
  LET me == threads[t]
  IN /\ me.pc = "idle"
     /\ \E r \in ThreadRequests :
          Run(t, [me EXCEPT !.entry = r.entry, !.method = r.method, !.url = r.url,
                            !.data = r.data, !.headers = r.headers,
                            !.response = NewResponse, !.pc = "parseUrl"])

ThreadParseUrl(t) ==
  LET me == threads[t]
  IN /\ me.pc = "parseUrl"
     /\ \E emptyIter \in BOOLEAN :
          LET r == parseUrl(me.url, emptyIter)
          IN Run(t, IF r.thrown # "" THEN ThreadCaught(me, me.calls, r.thrown)
                    ELSE IF ~r.ok THEN ThreadFailed(me, me.calls, InvalidUrl)
                    ELSE [me EXCEPT !.scheme = r.scheme, !.host = r.host,
                                    !.port = r.port, !.path = r.path,
                                    !.pc = "WinHttpOpen"])

ThreadOpenSession(t) ==
  LET me == threads[t]
  IN /\ me.pc = "WinHttpOpen"
     /\ \E converts \in BOOLEAN, h \in Acquired :
          LET agent == toWideString(user_agent_, converts)
              log   == Append(me.calls, Call("WinHttpOpen", 0, agent.str, h))
          IN Run(t, IF agent.thrown # "" THEN ThreadCaught(me, me.calls, agent.thrown)
                    ELSE IF h = 0 THEN ThreadFailed(me, log, "WinHttpOpen failed.")
                    ELSE [me EXCEPT !.hSession = h, !.calls = log,
                                    !.pc = "WinHttpConnect"])

\* hSession.get() with hSession a member of the client, set by whichever
\* thread opened a session
SessionHeld_Member(t) ==
  threads[CHOOSE u \in Threads : threads[u].hSession # 0].hSession

\* hSession.get(): hSession is an automatic variable of the thread's sendRequest
SessionHeld(t) == threads[t].hSession

ThreadConnect(t) ==
  LET me == threads[t]
  IN /\ me.pc = "WinHttpConnect"
     /\ \E converts \in BOOLEAN, h \in Acquired :
          LET server == toWideString(me.host, converts)
              log    == Append(me.calls,
                          Call("WinHttpConnect", SessionHeld(t),
                               [server |-> server.str, port |-> me.port], h))
          IN Run(t, IF server.thrown # "" THEN ThreadCaught(me, me.calls, server.thrown)
                    ELSE IF h = 0 THEN ThreadFailed(me, log, "WinHttpConnect failed.")
                    ELSE [me EXCEPT !.hConnect = h, !.calls = log,
                                    !.pc = "WinHttpOpenRequest"])

ThreadOpenRequest(t) ==
  LET me == threads[t]
  IN /\ me.pc = "WinHttpOpenRequest"
     /\ \E convertsVerb \in BOOLEAN, convertsName \in BOOLEAN, h \in Acquired :
          LET verb == toWideString(me.method, convertsVerb)
              name == toWideString(me.path, convertsName)
              log  == Append(me.calls,
                        Call("WinHttpOpenRequest", me.hConnect,
                             [verb |-> verb.str, objectName |-> name.str,
                              secure |-> me.scheme = <<"h", "t", "t", "p", "s">>], h))
          IN Run(t, IF verb.thrown # "" THEN ThreadCaught(me, me.calls, verb.thrown)
                    ELSE IF name.thrown # "" THEN ThreadCaught(me, me.calls, name.thrown)
                    ELSE IF h = 0 THEN ThreadFailed(me, log, "WinHttpOpenRequest failed.")
                    ELSE [me EXCEPT !.hRequest = h, !.calls = log,
                                    !.pc = "WinHttpAddRequestHeaders"])

ThreadAddRequestHeaders(t) ==
  LET me == threads[t]
  IN /\ me.pc = "WinHttpAddRequestHeaders"
     /\ \E order \in Orders(me.headers), converts \in BOOLEAN, ok \in BOOLEAN :
          LET headerString == HeaderString(me.headers, order, 1)
              throws == /\ ~converts
                        /\ \E k \in DOMAIN me.headers : k # <<>> \/ me.headers[k] # <<>>
              log == Append(me.calls,
                       Call("WinHttpAddRequestHeaders", me.hRequest,
                            [headers |-> headerString, length |-> Len(headerString)], ok))
          IN Run(t, IF throws THEN ThreadCaught(me, me.calls, ConversionToWideFailed)
                    ELSE IF headerString = <<>>
                    THEN [me EXCEPT !.pc = "WinHttpSendRequest"]
                    ELSE IF ~ok
                    THEN ThreadFailed(me, log, "WinHttpAddRequestHeaders failed.")
                    ELSE [me EXCEPT !.calls = log, !.pc = "WinHttpSendRequest"])

ThreadSendRequest(t) ==
  LET me == threads[t]
  IN /\ me.pc = "WinHttpSendRequest"
     /\ \E ok \in BOOLEAN :
          LET log == Append(me.calls,
                       Call("WinHttpSendRequest", me.hRequest,
                            [lpOptional       |-> lpOptional(me.data),
                             optional         |-> me.data,
                             dwOptionalLength |-> IF me.data = <<>> THEN 0 ELSE Len(me.data),
                             dwTotalLength    |-> IF me.data = <<>> THEN 0 ELSE Len(me.data)],
                            ok))
          IN Run(t, IF ~ok THEN ThreadFailed(me, log, "WinHttpSendRequest failed.")
                    ELSE [me EXCEPT !.calls = log, !.pc = "WinHttpReceiveResponse"])

ThreadReceiveResponse(t) ==
  LET me == threads[t]
  IN /\ me.pc = "WinHttpReceiveResponse"
     /\ \E ok \in BOOLEAN :
          LET log == Append(me.calls,
                       Call("WinHttpReceiveResponse", me.hRequest, <<>>, ok))
          IN Run(t, IF ~ok THEN ThreadFailed(me, log, "WinHttpReceiveResponse failed.")
                    ELSE [me EXCEPT !.calls = log, !.pc = "QueryStatusCode"])

ThreadQueryStatusCode(t) ==
  LET me == threads[t]
  IN /\ me.pc = "QueryStatusCode"
     /\ \E ok \in BOOLEAN, dwStatusCode \in ThreadStatusCodes :
          LET log == Append(me.calls,
                       Call("WinHttpQueryHeaders", me.hRequest,
                            [query |-> "STATUS_CODE", pass |-> "fill",
                             status |-> IF ok THEN dwStatusCode ELSE 0],
                            ok))
          IN Run(t, IF ~ok
                    THEN ThreadFailed(me, log, "WinHttpQueryHeaders for status code failed.")
                    ELSE [me EXCEPT !.response = StatusStored(me.response, dwStatusCode),
                                    !.calls = log, !.pc = "QueryHeaderSize"])

ThreadQueryHeaderSize(t) ==
  LET me == threads[t]
  IN /\ me.pc = "QueryHeaderSize"
     /\ \E size \in {0} \cup {SizeofWchar * (Len(b) + 1) : b \in RawHeaderBlocks} :
          Run(t, [me EXCEPT
                    !.dwHeaderSize = size,
                    !.calls = Append(me.calls,
                                Call("WinHttpQueryHeaders", me.hRequest,
                                     [query |-> "RAW_HEADERS_CRLF", pass |-> "size",
                                      buffer |-> 0, size |-> size],
                                     FALSE)),
                    !.pc = "QueryHeaders"])

\* the undefined &headerBuffer[0] on an empty vector, when it aborts, aborts
\* the process: every thread stops
ThreadQueryHeaders(t) ==
  LET me     == threads[t]
      length == me.dwHeaderSize \div SizeofWchar
      query(block, ok) ==
        Append(me.calls,
          Call("WinHttpQueryHeaders", me.hRequest,
               [query |-> "RAW_HEADERS_CRLF", pass |-> "fill", buffer |-> length,
                size |-> me.dwHeaderSize, block |-> block],
               ok))
      skip == [me EXCEPT !.calls = query(<<>>, FALSE), !.pc = "WinHttpReadData"]
  IN /\ me.pc = "QueryHeaders"
     /\ IF length = 0
        THEN \E aborts \in BOOLEAN :
               IF aborts
               THEN /\ threads' = [u \in Threads |-> [threads[u] EXCEPT !.pc = "crashed"]]
                    /\ UNCHANGED <<pc, user_agent_, wrappers, args, parsed, handles,
                                   dwHeaderSize, responseBody, response, calls, exit,
                                   observed>>
               ELSE Run(t, skip)
        ELSE \E ok \in BOOLEAN, converts \in BOOLEAN,
                headerBuffer \in {b \o <<Nul>> : b \in {x \in RawHeaderBlocks :
                                                          Len(x) + 1 = length}} :
               LET headersW == SubSeq(headerBuffer, 1, Len(headerBuffer) - 1)
                   headersA == toUTF8String(headersW, converts)
               IN Run(t, IF ~ok THEN skip
                         ELSE IF headersA.thrown # ""
                         THEN ThreadCaught(me, query(headerBuffer, TRUE), headersA.thrown)
                         ELSE [me EXCEPT !.response.headers = parseHeaders(headersA.str),
                                         !.calls = query(headerBuffer, TRUE),
                                         !.pc = "WinHttpReadData"])

ThreadReadData(t) ==
  LET me == threads[t]
  IN /\ me.pc = "WinHttpReadData"
     /\ \E ok \in BOOLEAN,
           chunk \in {<<>>} \cup (IF me.responseBody = <<>> THEN ThreadChunks ELSE {}) :
          LET log == Append(me.calls,
                       Call("WinHttpReadData", me.hRequest,
                            [size |-> BufferSize, read |-> IF ok THEN Len(chunk) ELSE 0,
                             buffer |-> IF ok THEN chunk ELSE <<>>],
                            ok))
          IN Run(t, IF ~ok THEN ThreadFailed(me, log, "WinHttpReadData failed.")
                    ELSE IF Len(chunk) > 0
                    THEN [me EXCEPT !.responseBody = append(me.responseBody, chunk),
                                    !.calls = log]
                    ELSE ThreadLeft(me, log,
                           [me.response EXCEPT !.body = append(me.responseBody, chunk)],
                           "end"))

NextThreads ==
  \E t \in Threads :
    \/ ThreadEnter(t) \/ ThreadParseUrl(t) \/ ThreadOpenSession(t) \/ ThreadConnect(t)
    \/ ThreadOpenRequest(t) \/ ThreadAddRequestHeaders(t) \/ ThreadSendRequest(t)
    \/ ThreadReceiveResponse(t) \/ ThreadQueryStatusCode(t) \/ ThreadQueryHeaderSize(t)
    \/ ThreadQueryHeaders(t) \/ ThreadReadData(t)

SpecThreads == InitThreads /\ [][NextThreads]_vars

(***************************************************************************)
(* What the claims speak of, read from the transport calls made.           *)
(***************************************************************************)
\* the calls of the log that satisfy Test, in order
CallsOf(log, Test(_)) == SelectSeq(log, Test)

IsAcquisition(c) == c.op \in Acquiring /\ c.ret # 0
IsClose(c) == c.op = "WinHttpCloseHandle"
IsRead(c) == c.op = "WinHttpReadData"

\* the entry point has been left, with a response or by an exception
Left == pc \in {"returned", "escaped"}

\* which call acquired the handles closed, in the order of the closes
ClosedKinds ==
  LET closes == CallsOf(calls, IsClose)
      acquisitions == CallsOf(calls, IsAcquisition)
  IN [i \in 1..Len(closes) |->
        {a.op : a \in {acquisitions[j] : j \in {k \in 1..Len(acquisitions) :
                                                  acquisitions[k].ret = closes[i].h}}}]

\* the kinds of handle acquired, innermost first
AcquiredInnermostFirst ==
  LET acquired == {c.op : c \in {calls[i] : i \in {k \in 1..Len(calls) :
                                                     IsAcquisition(calls[k])}}}
  IN SelectSeq(<<"WinHttpOpenRequest", "WinHttpConnect", "WinHttpOpen">>,
               LAMBDA op : op \in acquired)

\* C1: when the entry point is left, whatever the stage the exchange ended at
\* and however it ended, the handles closed are the handles acquired, each
\* closed once, the request's first, then the connection's, then the
\* session's; and at no time is a handle closed that was not acquired, or
\* closed twice.
C1_HandlesReleasedInnermostFirst ==
  /\ \A i \in 1..Len(calls) :
       IsClose(calls[i]) =>
         /\ \E j \in 1..(i - 1) : IsAcquisition(calls[j]) /\ calls[j].ret = calls[i].h
         /\ \A j \in 1..(i - 1) : IsClose(calls[j]) => calls[j].h # calls[i].h
  /\ Left => ClosedKinds = [i \in 1..Len(AcquiredInnermostFirst) |->
                              {AcquiredInnermostFirst[i]}]

\* an exchange that held all three handles and ended in the exception handler
C1_Witness ==
  /\ pc = "returned"
  /\ exit.kind = "catch"
  /\ Len(CallsOf(calls, IsClose)) = 3

\* C2: a response returned with status_code 0 has a non-empty error.
C2_ZeroStatusHasError ==
  pc = "returned" => (response.status_code = 0 => response.error # "")

\* the status query failed: status_code is still 0
C2_Witness ==
  /\ pc = "returned"
  /\ exit.stage = "QueryStatusCode"
  /\ response.status_code = 0
  /\ response.error # ""

\* the stage a transport call belongs to (11: the release of a handle)
StageOf(c) ==
  CASE c.op = "WinHttpOpen" -> 2
    [] c.op = "WinHttpConnect" -> 3
    [] c.op = "WinHttpOpenRequest" -> 4
    [] c.op = "WinHttpAddRequestHeaders" -> 5
    [] c.op = "WinHttpSendRequest" -> 6
    [] c.op = "WinHttpReceiveResponse" -> 7
    [] c.op = "WinHttpQueryHeaders" /\ c.arg.query = "STATUS_CODE" -> 8
    [] c.op = "WinHttpQueryHeaders" /\ c.arg.query = "RAW_HEADERS_CRLF" -> 9
    [] c.op = "WinHttpReadData" -> 10
    [] c.op = "WinHttpCloseHandle" -> 11

\* the sizing query of stage 9, which reports the size by failing
IsSizing(c) == c.op = "WinHttpQueryHeaders" /\ c.arg.pass = "size"

\* the call is the failure of its stage / the success of its stage (a chunk
\* read is one step of stage 10, which succeeds with the zero-length read)
StageFailed(c) ==
  /\ ~IsClose(c) /\ ~IsSizing(c)
  /\ IF c.op \in Acquiring THEN c.ret = 0 ELSE ~c.ret

StageSucceeded(c) ==
  /\ ~IsClose(c) /\ ~IsSizing(c)
  /\ IF c.op \in Acquiring THEN c.ret # 0 ELSE c.ret
  /\ IsRead(c) => c.arg.read = 0

\* the diagnostic of each stage
DiagnosticOf(stage) ==
  CASE stage = 2 -> "WinHttpOpen failed."
    [] stage = 3 -> "WinHttpConnect failed."
    [] stage = 4 -> "WinHttpOpenRequest failed."
    [] stage = 5 -> "WinHttpAddRequestHeaders failed."
    [] stage = 6 -> "WinHttpSendRequest failed."
    [] stage = 7 -> "WinHttpReceiveResponse failed."
    [] stage = 8 -> "WinHttpQueryHeaders for status code failed."
    [] stage = 10 -> "WinHttpReadData failed."

\* the stages whose failure has a diagnostic in the source
Diagnosed == {2, 3, 4, 5, 6, 7, 8, 10}

\* C3, order: the transport calls are made in the order of the stages.
StagesInOrder ==
  \A i, j \in 1..Len(calls) :
    i < j => /\ StageOf(calls[i]) <= StageOf(calls[j])
             /\ StageOf(calls[i]) = StageOf(calls[j]) => StageOf(calls[i]) \in {9, 10, 11}

\* C3, gating, for the stages in S: a transport call is made only when every
\* earlier stage in S has succeeded (header attachment has nothing to do for an
\* empty mapping).
StagesGated(S) ==
  \A j \in 1..Len(calls) :
    ~IsClose(calls[j]) =>
      \A st \in S :
        st < StageOf(calls[j]) =>
          \/ st = 5 /\ headers = EmptyMap
          \/ \E i \in 1..(j - 1) : StageOf(calls[i]) = st /\ StageSucceeded(calls[i])

\* C3, abort, for the stages in S: after the failure of a stage nothing but the
\* release of handles follows.
NothingAfterFailure(S) ==
  \A i, j \in 1..Len(calls) :
    i < j /\ StageFailed(calls[i]) /\ StageOf(calls[i]) \in S => IsClose(calls[j])

\* C3, result, for the stages in S: the response returned after a stage failed
\* carries that stage's diagnostic, and the fields later stages fill are at
\* their defaults.
FailureReported(S) ==
  pc = "returned" =>
    /\ exit.kind = "return" /\ exit.stage = "parseUrl" =>
         /\ response.error = InvalidUrl
         /\ calls = <<>>
         /\ response.status_code = 0 /\ response.headers = EmptyMap
         /\ response.body = <<>>
    /\ \A i \in 1..Len(calls) :
         StageFailed(calls[i]) /\ StageOf(calls[i]) \in S =>
           LET st == StageOf(calls[i])
           IN /\ st \in Diagnosed => response.error = DiagnosticOf(st)
              /\ response.error # ""
              /\ st <= 8 => response.status_code = 0
              /\ st <= 9 => response.headers = EmptyMap
              /\ response.body = <<>>

AbortOnFailure(S) ==
  /\ StagesInOrder
  /\ StagesGated(S)
  /\ NothingAfterFailure(S)
  /\ FailureReported(S)

\* C3: the ten stages run in their order, a stage is attempted only when every
\* earlier one succeeded, nothing but the release of handles follows a failed
\* stage, and the response then carries the stage's diagnostic with the later
\* fields at their defaults.
C3_StagesAbortOnFailure == AbortOnFailure(2..10)

\* C3 for every stage but header extraction (stage 9): this much holds.
C3_ExceptHeaderExtraction == AbortOnFailure((2..10) \ {9})

\* C5: when the raw-header query that fills the buffer fails, the response
\* returned has an error, no headers, and no body chunk was read.
HeaderQueryFailed ==
  \E i \in 1..Len(calls) : StageOf(calls[i]) = 9 /\ StageFailed(calls[i])

C5_HeaderFailureAborts ==
  pc = "returned" /\ HeaderQueryFailed =>
    /\ response.error # ""
    /\ response.headers = EmptyMap
    /\ \A i \in 1..Len(calls) : ~IsRead(calls[i])

(***************************************************************************)
(* The URL grammar of the specification: scheme http or https, "://", an   *)
(* authority without credentials, an optional ":" and numeric port, an     *)
(* optional path and an optional query.                                    *)
(***************************************************************************)
SchemeLength(u) ==
  IF HasPrefix(u, HttpsPrefix) THEN Len(HttpsPrefix)
  ELSE IF HasPrefix(u, HttpPrefix) THEN Len(HttpPrefix) ELSE 0

\* the authority: from the end of the scheme prefix up to the path or query
Authority(u) ==
  Sub(u, SchemeLength(u) + 1, SchemeLength(u) + RunNotIn(u, SchemeLength(u) + 1, {"/", "?"}))

\* what follows the authority: path and query
Target(u) == Sub(u, SchemeLength(u) + Len(Authority(u)) + 1, Len(u))

HostOf(u) == Sub(Authority(u), 1, RunNotIn(Authority(u), 1, {":"}))

HasPort(u) == Len(HostOf(u)) < Len(Authority(u))

PortOf(u) == Sub(Authority(u), Len(HostOf(u)) + 2, Len(Authority(u)))

MissingScheme(u) == SchemeLength(u) = 0 /\ \A i \in 1..Len(u) : u[i] # ":"
UnsupportedScheme(u) == SchemeLength(u) = 0 /\ \E i \in 1..Len(u) : u[i] = ":"
MissingHost(u) == SchemeLength(u) > 0 /\ HostOf(u) = <<>>
NonNumericPort(u) ==
  /\ SchemeLength(u) > 0 /\ HasPort(u)
  /\ \A i \in 1..Len(Authority(u)) : Authority(u)[i] # "@"
  /\ PortOf(u) = <<>> \/ \E i \in 1..Len(PortOf(u)) : PortOf(u)[i] \notin Digits
Credentials(u) ==
  SchemeLength(u) > 0 /\ \E i \in 1..Len(Authority(u)) : Authority(u)[i] = "@"

Malformed(u) ==
  \/ MissingScheme(u) \/ UnsupportedScheme(u) \/ MissingHost(u)
  \/ NonNumericPort(u) \/ Credentials(u)

\* C4: for a malformed URL the exchange ends at URL resolution: no session,
\* connection or request is ever asked of the transport, and the response
\* returned has the error "Invalid URL format." and status_code 0.
C4_MalformedUrlRejected ==
  entry # "" /\ Malformed(url) =>
    /\ pc \in {"parseUrl", "returned", "escaped"}
    /\ calls = <<>>
    /\ pc = "returned" => response.error = InvalidUrl /\ response.status_code = 0

\* C4 for the URLs with no scheme, an unsupported scheme or no host: this much
\* holds.
C4_NoSchemeOrHostRejected ==
  entry # "" /\ (MissingScheme(url) \/ UnsupportedScheme(url) \/ MissingHost(url)) =>
    /\ pc \in {"parseUrl", "returned", "escaped"}
    /\ calls = <<>>
    /\ pc = "returned" => response.error = InvalidUrl /\ response.status_code = 0

\* a body read failed
ReadFailure == \E i \in 1..Len(calls) : IsRead(calls[i]) /\ ~calls[i].ret

\* C6: a response returned after a failed body read has a non-empty error and
\* an empty body, whatever was read before; and every response returned with
\* a non-empty error has an empty body.
C6_NoBodyWithError ==
  pc = "returned" =>
    /\ ReadFailure => response.error # "" /\ response.body = <<>>
    /\ response.error # "" => response.body = <<>>

\* a read failed after two chunks had been accumulated
C6_Witness ==
  /\ pc = "returned"
  /\ ReadFailure
  /\ ChunksRead >= 2
  /\ Len(responseBody) >= 2
  /\ response.body = <<>>
  /\ response.error = "WinHttpReadData failed."

\* C7: no entry point is left by an exception: one raised during the exchange
\* ends in the handler, with its message in error and the response returned.
C7_NoExceptionEscapes ==
  /\ pc # "escaped"
  /\ exit.kind = "catch" => pc = "returned" /\ response.error # ""

\* C7 for the exceptions raised inside sendRequest: this much holds.
C7_SendRequestCatches ==
  exit.kind = "catch" => pc = "returned" /\ response.error # ""

\* the last transport call before the handles were released
LastStageCall ==
  LET made == CallsOf(calls, LAMBDA c : ~IsClose(c))
  IN made[Len(made)]

MadeCalls == \E i \in 1..Len(calls) : ~IsClose(calls[i])

\* the status the transport reported
ReportedStatus ==
  LET queries == CallsOf(calls, LAMBDA c : StageOf(c) = 8 /\ c.ret)
  IN queries[1].arg.status

\* every stage was run: the last call is the zero-length read
Completed == MadeCalls /\ StageOf(LastStageCall) = 10 /\ StageSucceeded(LastStageCall)

\* C8: a response returned after the failure of session acquisition,
\* connection acquisition, request construction, header attachment, send or
\* receive has an error and status_code 0; a response returned after every
\* stage was run has no error and the status the transport reported.
C8_ErrorOrStatus ==
  pc = "returned" /\ MadeCalls =>
    /\ StageOf(LastStageCall) \in 2..7 /\ StageFailed(LastStageCall) =>
         response.error # "" /\ response.status_code = 0
    /\ Completed =>
         response.error = "" /\ response.status_code = ReportedStatus

\* an exchange run to its end with a status outside 2xx
C8_Witness ==
  /\ pc = "returned"
  /\ Completed
  /\ ReportedStatus = 404
  /\ response.status_code = 404
  /\ response.error = ""

\* C9: is_success() is true exactly of the responses with a status_code from
\* 200 to 299 and an empty error.
C9_IsSuccessExact ==
  pc = "observed" =>
    (observed[1] <=> /\ 200 <= response.status_code
                     /\ response.status_code < 300
                     /\ response.error = "")

\* is_success() answered for a response with status 299 and no error
C9_Witness ==
  /\ pc = "observed"
  /\ response.status_code = 299
  /\ response.error = ""
  /\ observed = <<TRUE>>

\* C10: for a URL of the grammar, the object name request construction is
\* given is what follows the authority (path and query) when the URL has a
\* path, and "/" when nothing follows the authority.
C10_PathAndQueryPassed ==
  ~Malformed(url) =>
    \A i \in 1..Len(calls) :
      StageOf(calls[i]) = 4 =>
        /\ Target(url) # <<>> /\ Target(url)[1] = "/" =>
             calls[i].arg.objectName = Target(url)
        /\ Target(url) = <<>> => calls[i].arg.objectName = <<"/">>

\* C10 for the path alone: the object name is the path for a URL with a path
\* and no query.
C10_PathPassed ==
  ~Malformed(url) =>
    \A i \in 1..Len(calls) :
      (/\ StageOf(calls[i]) = 4
       /\ Target(url) # <<>> /\ Target(url)[1] = "/"
       /\ \A k \in 1..Len(Target(url)) : Target(url)[k] # "?")
        => calls[i].arg.objectName = Target(url)

\* the port the URL's scheme stands for
DefaultPortOf(u) == IF HasPrefix(u, HttpsPrefix) THEN HttpsPort ELSE HttpPort

\* the port a URL of the grammar names: the number written, or the default
NamedPort(u) == IF HasPort(u) THEN DecimalValue(PortOf(u)) ELSE DefaultPortOf(u)

\* the connection is asked for the port the URL names, and an explicit port
\* never ends URL resolution in an exception
PortUsed(u) ==
  /\ \A i \in 1..Len(calls) :
       calls[i].op = "WinHttpConnect" => calls[i].arg.port = NamedPort(u)
  /\ HasPort(u) /\ pc = "returned" =>
       ~(exit.stage = "parseUrl" /\ exit.kind = "catch")

\* C11: for a URL of the grammar, the port connection acquisition is given is
\* the number written in the URL when there is one, whatever its size, and
\* otherwise 443 for https and 80 for http.
C11_ExplicitPortUsed ==
  entry # "" /\ ~Malformed(url) => PortUsed(url)

\* C11 for the URLs without a port and those whose port fits 16 bits: this
\* much holds.
C11_PortWithin16Bits ==
  (/\ entry # "" /\ ~Malformed(url)
   /\ HasPort(url) => DecimalValue(PortOf(url)) \in 0..(UShortRange - 1))
    => PortUsed(url)

\* the string neither begins nor ends with space, tab, CR or LF
Untrimmed(s) == s # <<>> => s[1] \notin TrimSet /\ s[Len(s)] \notin TrimSet

\* the string holds the character
Holds(s, c) == \E i \in 1..Len(s) : s[i] = c

\* a header mapping of the wire: its names hold no colon, names and values
\* hold no line feed, neither begin nor end with space, tab, CR or LF, do not
\* end with a NUL, and are valid UTF-8
WireMapping(m) ==
  \A k \in DOMAIN m :
    /\ ~Holds(k, ":")
    /\ \A s \in {k, m[k]} :
         /\ ~Holds(s, "\n")
         /\ Untrimmed(s)
         /\ s # <<>> => s[Len(s)] # Nul
         /\ ValidUtf8(s)

\* C12: a header mapping serialized as the request path serializes it, set
\* between a status line and a blank line and parsed by parseHeaders, comes
\* back as the same mapping.
C12_RoundTrip ==
  pc = "parsed" /\ entry = "serialize" => response.headers = headers

\* C12 amended: the same for the mappings of the wire.
C12_RoundTripOfWireMappings ==
  pc = "parsed" /\ entry = "serialize" /\ WireMapping(headers) =>
    response.headers = headers

\* a mapping of two headers, one with a colon in its value, came back
C12_Witness ==
  /\ pc = "parsed" /\ entry = "serialize"
  /\ WireMapping(headers)
  /\ DOMAIN headers = {<<"A">>, <<"B">>}
  /\ headers[<<"A">>] = <<"c", ":", "d">>
  /\ response.headers = headers

\* the line holds a colon; the place of its first one
HasColon(l) == Holds(l, ":")
FirstColon(l) == CHOOSE i \in 1..Len(l) : l[i] = ":" /\ \A j \in 1..(i - 1) : l[j] # ":"

\* s without the spaces, tabs, CRs and LFs it begins and ends with
Stripped(s) ==
  LET kept == {i \in 1..Len(s) : s[i] \notin TrimSet}
  IN IF kept = {} THEN <<>>
     ELSE SubSeq(s, CHOOSE a \in kept : \A i \in kept : a <= i,
                    CHOOSE b \in kept : \A i \in kept : i <= b)

KeyOfLine(l) == Stripped(SubSeq(l, 1, FirstColon(l) - 1))
ValueOfLine(l) == Stripped(SubSeq(l, FirstColon(l) + 1, Len(l)))

\* the lines that contribute an entry: after the first, not blank, with a colon
Contributing(lines) == {i \in 2..Len(lines) : lines[i] # <<>> /\ HasColon(lines[i])}

\* the mapping the lines stand for: each key with the value of the last line
\* that has it
MappingOf(lines) ==
  LET keys == {KeyOfLine(lines[i]) : i \in Contributing(lines)}
      last(k) == CHOOSE i \in Contributing(lines) :
                   /\ KeyOfLine(lines[i]) = k
                   /\ \A j \in Contributing(lines) : KeyOfLine(lines[j]) = k => j <= i
  IN [k \in keys |-> ValueOfLine(lines[last(k)])]

\* C17: parseHeaders, given a block of CR-LF terminated lines, leaves the
\* mapping in which the first line has no part, every later non-blank line
\* with a colon gives the pair of the text before its first colon and the text
\* after it, both trimmed, lines without a colon give nothing, and a key on
\* several lines has the value of the last.
C17_ParseHeadersMapping ==
  pc = "parsed" /\ entry = "parseHeaders" => response.headers = MappingOf(observed)

\* a block whose first line has a colon and whose next two lines share a key
C17_Witness ==
  /\ pc = "parsed" /\ entry = "parseHeaders"
  /\ observed = << <<"S", ":", " ", "1">>, <<"A", ":", " ", "b">>, <<"A", ":", "c">> >>
  /\ response.headers = [k \in {<<"A">>} |-> <<"c">>]

\* the lines of a header block that name the header
LinesNaming(block, name) ==
  LET lines == GetLines(block)
  IN {i \in 1..Len(lines) : HasPrefix(lines[i], name \o <<":">>)}

\* C13: postJson starts a POST exchange whose header mapping is the caller's
\* with Content-Type set to application/json: every other header of the
\* caller is there unchanged, nothing else is, and the block attached to the
\* request has exactly one Content-Type line, that of application/json.
C13_JsonContentType ==
  entry = "postJson" /\ pc \notin {"idle", "escaped"} =>
    /\ method = POST
    /\ DOMAIN headers = DOMAIN observed[1] \cup {ContentType}
    /\ headers[ContentType] = ApplicationJson
    /\ \A k \in DOMAIN observed[1] \ {ContentType} : headers[k] = observed[1][k]
    /\ \A i \in 1..Len(calls) :
         calls[i].op = "WinHttpAddRequestHeaders" =>
           /\ Cardinality(LinesNaming(calls[i].arg.headers, ContentType)) = 1
           /\ \E n \in LinesNaming(calls[i].arg.headers, ContentType) :
                GetLines(calls[i].arg.headers)[n]
                  = ContentType \o <<":", " ">> \o ApplicationJson \o <<"\r">>

\* postJson called with a Content-Type of the caller's own, the headers attached
C13_Witness ==
  /\ entry = "postJson"
  /\ observed = << [k \in {ContentType} |-> TextPlain] >>
  /\ headers = [k \in {ContentType} |-> ApplicationJson]
  /\ \E i \in 1..Len(calls) : calls[i].op = "WinHttpAddRequestHeaders" /\ calls[i].ret

IsSend(c) == c.op = "WinHttpSendRequest"
IsAddHeaders(c) == c.op = "WinHttpAddRequestHeaders"

\* the entry points that take no body
Bodiless == {"get", "del", "head", "options"}

\* after a send that succeeded the exchange is at the receive stage, or has
\* called it
ReceiveFollows(i) ==
  IF i = Len(calls) THEN pc = "WinHttpReceiveResponse"
  ELSE calls[i + 1].op = "WinHttpReceiveResponse"

\* C15: a request with an empty body (every get, del, head and options call,
\* and post, put and patch with empty data) hands the send operation a
\* payload that is not null, of length 0, with a total length of 0, and goes
\* on to the receive stage.
C15_ZeroLengthPayload ==
  /\ entry \in Bodiless => data = <<>>
  /\ entry # "" /\ data = <<>> =>
       \A i \in 1..Len(calls) :
         IsSend(calls[i]) =>
           /\ calls[i].arg.lpOptional # "NULL"
           /\ calls[i].arg.dwOptionalLength = 0
           /\ calls[i].arg.dwTotalLength = 0
           /\ calls[i].ret => ReceiveFollows(i)

\* C15 amended: such a request hands the send operation no payload buffer (a
\* null pointer), a payload length of 0 and a total length of 0, and goes on
\* to the receive stage.
C15_NoPayloadZeroLength ==
  /\ entry \in Bodiless => data = <<>>
  /\ entry # "" /\ data = <<>> =>
       \A i \in 1..Len(calls) :
         IsSend(calls[i]) =>
           /\ calls[i].arg.lpOptional = "NULL"
           /\ calls[i].arg.optional = <<>>
           /\ calls[i].arg.dwOptionalLength = 0
           /\ calls[i].arg.dwTotalLength = 0
           /\ calls[i].ret => ReceiveFollows(i)

\* a head request was sent and the response received
C15_Witness ==
  /\ entry = "head" /\ data = <<>>
  /\ \E i \in 1..Len(calls) : IsSend(calls[i]) /\ calls[i].ret
  /\ \E i \in 1..Len(calls) : calls[i].op = "WinHttpReceiveResponse" /\ calls[i].ret

\* the lines of the mapping on the wire, CR LF apart
WireLines(m) == {k \o <<":", " ">> \o m[k] : k \in DOMAIN m}

\* the lines of a block: what precedes each CR LF, and nothing after the last
LinesOfBlock(block) ==
  LET lines == GetLines(block)
  IN IF block # <<>> /\ block[Len(block)] = "\n"
        /\ \A i \in 1..Len(lines) : lines[i] # <<>> /\ lines[i][Len(lines[i])] = "\r"
     THEN [i \in 1..Len(lines) |-> SubSeq(lines[i], 1, Len(lines[i]) - 1)]
     ELSE << <<"not CR-LF terminated">> >>

\* C16: with an empty header mapping no add-headers call is made and send
\* follows request construction at once; with a non-empty one add-headers is
\* called once, before send, with a block of one "Name: Value" CR-LF line for
\* each entry of the mapping and nothing else.
C16_HeadersAttachedOnce ==
  LET adds == {i \in 1..Len(calls) : IsAddHeaders(calls[i])}
  IN /\ Cardinality(adds) <= 1
     /\ headers = EmptyMap => adds = {}
     /\ \A i \in adds :
          LET lines == LinesOfBlock(calls[i].arg.headers)
          IN /\ Len(lines) = Cardinality(DOMAIN headers)
             /\ {lines[n] : n \in 1..Len(lines)} = WireLines(headers)
             /\ calls[i].arg.length = Len(calls[i].arg.headers)
     /\ \A j \in 1..Len(calls) :
          IsSend(calls[j]) =>
            IF headers = EmptyMap
            THEN StageOf(calls[j - 1]) = 4
            ELSE /\ j - 1 \in adds
                 /\ calls[j - 1].ret

\* a request with two headers was sent
C16_Witness ==
  /\ DOMAIN headers = {<<"A">>, <<"B">>}
  /\ \E j \in 1..Len(calls) : IsSend(calls[j]) /\ IsAddHeaders(calls[j - 1])

\* the chunks the reads returned, in the order of the reads
RECURSIVE ChunksOf(_)
ChunksOf(log) ==
  IF log = <<>> THEN <<>>
  ELSE (IF IsRead(Head(log)) THEN Head(log).arg.buffer ELSE <<>>) \o ChunksOf(Tail(log))

\* a read that ends the loop: it failed, or it returned no bytes
LastRead(c) == IsRead(c) /\ (~c.ret \/ c.arg.read = 0)

\* C18: the reads follow one another, the first that fails or returns zero
\* bytes is the last, and with a zero-length read the exchange has ended and
\* the body returned is the chunks read before it, in the order of the reads.
C18_ReadsUntilEmpty ==
  /\ \A i \in 1..Len(calls) :
       IsRead(calls[i]) /\ ~LastRead(calls[i]) =>
         IF i = Len(calls) THEN pc = "WinHttpReadData" ELSE IsRead(calls[i + 1])
  /\ \A i, j \in 1..Len(calls) :
       i < j /\ LastRead(calls[i]) => IsClose(calls[j])
  /\ \A i \in 1..Len(calls) :
       IsRead(calls[i]) /\ calls[i].ret /\ calls[i].arg.read = 0 =>
         /\ pc = "returned"
         /\ response.body = ChunksOf(calls)
         /\ response.error = ""
  /\ pc = "WinHttpReadData" => responseBody = ChunksOf(calls)

\* two chunks, then the zero-length read
C18_Witness ==
  /\ pc = "returned"
  /\ exit.kind = "end"
  /\ ChunksRead = 2
  /\ response.body = <<"o", "k", "!">>

\* the handles given to wrappers, and how often the transport was asked to
\* close a handle
NativeHandles == {calls[i].ret : i \in {k \in 1..Len(calls) : IsAcquisition(calls[k])}}
Closes(h) == Cardinality({i \in 1..Len(calls) : IsClose(calls[i]) /\ calls[i].h = h})

\* no handle is closed twice, no wrapper holds a closed handle, and with no
\* wrapper alive every handle given has been closed
ClosedOnce ==
  /\ \A h \in NativeHandles : Closes(h) <= 1
  /\ \A w \in Wrappers :
       wrappers[w].life = "alive" /\ wrappers[w].handle_ # 0 =>
         Closes(wrappers[w].handle_) = 0
  /\ (\A w \in Wrappers : wrappers[w].life # "alive") =>
       \A h \in NativeHandles : Closes(h) = 1

\* C19: whatever the constructions, moves, resets and destructions, a native
\* handle given to a wrapper is closed at most once, no wrapper holds a handle
\* that has been closed, and once no wrapper is left every such handle has
\* been closed exactly once; reset with the handle the wrapper holds included.
C19_HandlesClosedOnce == ClosedOnce

\* C19 as long as no wrapper is reset to the handle it holds: this much holds.
C19_WithoutResetToOwn == ~observed[1] => ClosedOnce

\* the response sendRequest returns, told from the transport calls it made
\* (log) and from how and where it ended (ex): the status the status query
\* reported, the headers of the block the header query filled in, the chunks
\* read when the loop ran to its end, and the diagnostic of the stage that
\* failed or the message of the exception caught
ResponseFrom(log, ex) ==
  LET made    == CallsOf(log, LAMBDA c : ~IsClose(c))
      status  == CallsOf(log, LAMBDA c : StageOf(c) = 8 /\ c.ret)
      filled  == CallsOf(log, LAMBDA c : StageOf(c) = 9 /\ ~IsSizing(c) /\ c.ret)
      decoded == ~(ex.kind = "catch" /\ ex.stage = "QueryHeaders")
      block   == filled[1].arg.block
  IN [status_code |-> IF status = <<>> THEN 0 ELSE status[1].arg.status,
      headers     |-> IF filled # <<>> /\ decoded
                      THEN parseHeaders(toUTF8String(SubSeq(block, 1, Len(block) - 1),
                                                     TRUE).str)
                      ELSE EmptyMap,
      body        |-> IF ex.kind = "end" THEN ChunksOf(log) ELSE <<>>,
      error       |-> CASE ex.kind = "end" -> ""
                        [] ex.kind = "return" ->
                             IF ex.stage = "parseUrl" THEN InvalidUrl
                             ELSE DiagnosticOf(StageOf(made[Len(made)]))
                        [] ex.kind = "catch" ->
                             CASE ex.stage = "parseUrl" -> StoiOutOfRange
                               [] ex.stage = "QueryHeaders" -> ConversionToUtf8Failed
                               [] OTHER -> ConversionToWideFailed]

\* an exchange run alone returns the response told from its calls
AloneResponse == pc = "returned" => response = ResponseFrom(calls, exit)

\* every handle a call of the log is given was acquired by an earlier call of
\* the same log and not closed since
OwnHandlesOnly(log) ==
  \A i \in 1..Len(log) :
    log[i].h # 0 =>
      \E j \in 1..(i - 1) :
        /\ IsAcquisition(log[j]) /\ log[j].ret = log[i].h
        /\ \A k \in (j + 1)..(i - 1) : ~(IsClose(log[k]) /\ log[k].h = log[i].h)

\* the handles the log acquired and has not closed
HeldIn(log) ==
  {log[j].ret : j \in {k \in 1..Len(log) :
     /\ IsAcquisition(log[k])
     /\ \A n \in (k + 1)..Len(log) : ~(IsClose(log[n]) /\ log[n].h = log[k].ret)}}

\* what the calls of a thread are given comes from the request of that thread
OwnArguments(me) ==
  \A i \in 1..Len(me.calls) :
    LET c == me.calls[i]
    IN /\ c.op = "WinHttpOpen" => c.arg = DefaultUserAgent
       /\ c.op = "WinHttpConnect" =>
            /\ c.arg.server = parseUrl(me.url, TRUE).host
            /\ c.arg.port = parseUrl(me.url, TRUE).port
       /\ c.op = "WinHttpOpenRequest" => c.arg.verb = me.method
       /\ IsAddHeaders(c) =>
            \E order \in Orders(me.headers) :
              c.arg.headers = HeaderString(me.headers, order, 1)
       /\ IsSend(c) => c.arg.optional = me.data

\* C14: exchanges run by several threads on one client, in every interleaving
\* of their stages: a thread's calls are given only handles that thread
\* acquired and has not closed, no two threads hold the same handle, what the
\* calls are given comes from the thread's own request, the client's member
\* is never written, and the response a thread returns is the one the
\* exchange returns alone for the same transport outcomes.
C14_ExchangesIndependent ==
  /\ user_agent_ = DefaultUserAgent
  /\ \A t \in Threads :
       /\ OwnHandlesOnly(threads[t].calls)
       /\ OwnArguments(threads[t])
       /\ threads[t].pc = "returned" =>
            threads[t].response = ResponseFrom(threads[t].calls, threads[t].exit)
  /\ \A t, u \in Threads :
       t # u => HeldIn(threads[t].calls) \cap HeldIn(threads[u].calls) = {}

\* one thread has returned a response from an exchange it began and ended
\* while the other thread's exchange, of another request, held its handles
C14_Witness ==
  /\ threads["t1"].pc = "returned"
  /\ threads["t1"].exit.kind = "end"
  /\ threads["t1"].response.body = <<"o">>
  /\ threads["t1"].calls[1].ret > threads["t2"].hSession
  /\ threads["t2"].pc = "WinHttpReadData"
  /\ threads["t2"].entry = "post"
  /\ threads["t2"].hSession # 0

====
